---- MODULE Spec2Model ----
(***************************************************************************)
(* State-machine model of alembic/util/langhelpers.py:                     *)
(*   - Dispatcher: the (type, qualifier) -> handler registry, its          *)
(*     resolution along the method resolution order, and branch();         *)
(*   - ModuleClsProxy: the per-class registrations of module namespaces,   *)
(*     the facade functions installed in them and the active "_proxy".     *)
(*   - translate: the rewriting of legacy keyword names a facade applies   *)
(*     to the arguments of a call.                                         *)
(***************************************************************************)
EXTENDS Integers, Sequences, FiniteSets, TLC

VARIABLES
    registry,   \* dict object -> its items: the _registry dicts on the heap
    disp,       \* Dispatcher handle -> the dict its _registry refers to (0: unbound)
    dlast       \* the last Dispatcher operation and how it ended

dvars == <<registry, disp, dlast>>

VARIABLES
    members,        \* class -> member name -> "absent", "callable" or "plain"
    setups,         \* ModuleClsProxy._setups: class -> (attr_names, modules)
    ns,             \* namespace dict -> name -> what the name is bound to
    notified,       \* class -> the names handed to _add_proxied_attribute
                    \*   for every module registered for the class
    attached_ever,  \* the classes _install_proxy has run for
    plast,          \* the last registry operation and how it ended
    pcall           \* the facade call made in the current state, if any

pvars == <<members, setups, ns, notified, attached_ever, plast, pcall>>

VARIABLES
    calls       \* per Dispatcher, the dispatch_for calls a script still has
                \*   to make (todo) and the ones it has made (done)

VARIABLES
    tin,        \* the call handed to translate: the argspec of the method,
                \*   its _legacy_translations, and the call's args and kw
    tout        \* what translate did with it

tvars == <<tin, tout>>

vars == <<dvars, pvars, calls, tvars>>

(***************************************************************************)
(* Bounds of the dispatcher model.                                         *)
(***************************************************************************)
MaxEntries == 2          \* entries one _registry may hold

\* entries all the registries together may hold
MaxTotal == MaxEntries + 1

(***************************************************************************)
(* Bound of the proxy model.                                               *)
(***************************************************************************)
MaxModules == 2          \* create_module_class_proxy calls, all classes together

MaxCalls == 2            \* dispatch_for calls in a registration script

(***************************************************************************)
(* Bounds of the translate model.                                          *)
(***************************************************************************)
MaxArgs == 2             \* positional arguments of a call

MaxRules == 2            \* pairs in a _legacy_translations list

(***************************************************************************)
(* The class hierarchy handlers are registered for, and the objects that   *)
(* are dispatched.  Derived subclasses Base; every __mro__ ends in object,  *)
(* for which nothing is registered here.                                   *)
(***************************************************************************)
Types == {"Base", "Derived"}

Qualifiers == {"default", "x", "y"}

Handlers == {"H1", "H2"}

Objects == {"aBase", "aDerived"}

\* type(obj)
TypeOf(obj) ==
    CASE obj = "aBase"    -> "Base"
      [] obj = "aDerived" -> "Derived"

\* type(obj).__mro__ : most derived first, object last
Mro(cls) ==
    CASE cls = "object"  -> <<"object">>
      [] cls = "Base"    -> <<"Base", "object">>
      [] cls = "Derived" -> <<"Derived", "Base", "object">>

TableIds == {1, 2}

DictIds == {1, 2}

NoFn == "none"

(***************************************************************************)
(* A _registry is a dict keyed by the tuple (target, qualifier); it is     *)
(* modelled as the set of its items, each key occurring at most once.      *)
(***************************************************************************)
RegistryKeys(reg) == {e.key : e \in reg}

\* key in self._registry
HasKey(reg, key) == key \in RegistryKeys(reg)

\* self._registry[key]
GetItem(reg, key) == (CHOOSE e \in reg : e.key = key).fn

\* a store that keeps one item per target, whatever the qualifier
SetItemPerTarget(reg, key, fn) ==
    {e \in reg : e.key[1] # key[1]} \cup {[key |-> key, fn |-> fn]}

\* self._registry[key] = fn : a dict store replaces the item of an equal key
SetItem(reg, key, fn) ==
    {e \in reg : e.key # key} \cup {[key |-> key, fn |-> fn]}

\* dict.update(other)
DictUpdate(reg, other) ==
    {e \in reg : e.key \notin RegistryKeys(other)} \cup other

(***************************************************************************)
(* dispatch_for(target, qualifier)(fn).  The second assertion tests the    *)
(* bare class against the keys of the dict; a key is a 2-tuple, written    *)
(* here as a sequence, and the bare class is the 1-element sequence.       *)
(***************************************************************************)
TargetInRegistry(reg, target) == HasKey(reg, <<target>>)

dispatch_for(reg, target, qualifier, fn) ==
    IF TargetInRegistry(reg, target)
    THEN [registry |-> reg, raised |-> "AssertionError"]
    ELSE [registry |-> SetItem(reg, <<target, qualifier>>, fn),
          raised   |-> "none"]

(***************************************************************************)
(* dispatch(obj, qualifier): the for/else loop over type(obj).__mro__.     *)
(***************************************************************************)
\* a loop that tries 'default' before the qualifier
RECURSIVE dispatchLoopDefaultFirst(_, _, _)
dispatchLoopDefaultFirst(reg, mro, qualifier) ==
    IF mro = <<>>
    THEN [fn |-> NoFn, raised |-> "ValueError"]
    ELSE LET spcls == Head(mro) IN
         IF HasKey(reg, <<spcls, "default">>)
         THEN [fn |-> GetItem(reg, <<spcls, "default">>), raised |-> "none"]
         ELSE IF HasKey(reg, <<spcls, qualifier>>)
         THEN [fn |-> GetItem(reg, <<spcls, qualifier>>), raised |-> "none"]
         ELSE dispatchLoopDefaultFirst(reg, Tail(mro), qualifier)

\* a loop without the fallback to 'default'
RECURSIVE dispatchLoopNoFallback(_, _, _)
dispatchLoopNoFallback(reg, mro, qualifier) ==
    IF mro = <<>>
    THEN [fn |-> NoFn, raised |-> "ValueError"]
    ELSE LET spcls == Head(mro) IN
         IF HasKey(reg, <<spcls, qualifier>>)
         THEN [fn |-> GetItem(reg, <<spcls, qualifier>>), raised |-> "none"]
         ELSE dispatchLoopNoFallback(reg, Tail(mro), qualifier)

\* a resolution in two passes: the qualifier along the whole __mro__ first,
\* 'default' along the whole __mro__ after it
dispatchLoopQualifierFirst(reg, mro, qualifier) ==
    LET qs == {i \in 1..Len(mro) : HasKey(reg, <<mro[i], qualifier>>)}
        ds == {i \in 1..Len(mro) : HasKey(reg, <<mro[i], "default">>)}
        first(S) == CHOOSE i \in S : \A j \in S : i <= j
    IN  IF qs # {}
        THEN [fn |-> GetItem(reg, <<mro[first(qs)], qualifier>>),
              raised |-> "none"]
        ELSE IF ds # {}
        THEN [fn |-> GetItem(reg, <<mro[first(ds)], "default">>),
              raised |-> "none"]
        ELSE [fn |-> NoFn, raised |-> "ValueError"]

RECURSIVE dispatchLoop(_, _, _)
dispatchLoop(reg, mro, qualifier) ==
    IF mro = <<>>
    THEN [fn |-> NoFn, raised |-> "ValueError"]
    ELSE LET spcls == Head(mro) IN
         IF qualifier # "default" /\ HasKey(reg, <<spcls, qualifier>>)
         THEN [fn |-> GetItem(reg, <<spcls, qualifier>>), raised |-> "none"]
         ELSE IF HasKey(reg, <<spcls, "default">>)
         THEN [fn |-> GetItem(reg, <<spcls, "default">>), raised |-> "none"]
         ELSE dispatchLoop(reg, Tail(mro), qualifier)

dispatch(reg, obj, qualifier) == dispatchLoop(reg, Mro(TypeOf(obj)), qualifier)

(***************************************************************************)
(* Dispatcher objects.  A handle (a program variable such as t1, t2) is    *)
(* bound to a Dispatcher whose _registry attribute refers to a dict on the *)
(* heap.  A new dict takes an address no other bound handle refers to.     *)
(***************************************************************************)
Live == {t \in TableIds : disp[t] # 0}

RegistryOf(t) == registry[disp[t]]

FreshDict(t) ==
    CHOOSE d \in DictIds :
        /\ \A u \in TableIds \ {t} : disp[u] # d
        /\ \A e \in DictIds : (\A u \in TableIds \ {t} : disp[u] # e) => d <= e

\* Dispatcher.__init__: self._registry = {}
DispatcherInit(heap, new) == [heap EXCEPT ![new] = {}]

\* a branch() that hands out the receiver's own dict instead of a copy
branchShared(heap, self, new) == [heap |-> heap, ref |-> self]

\* a branch() that forgets to copy the entries
branchEmpty(heap, self, new) ==
    [heap |-> DispatcherInit(heap, new), ref |-> new]

\* branch(): d = Dispatcher(); d._registry.update(self._registry); return d
\* self is the dict of the receiver, new the dict of the Dispatcher created;
\* the result is the heap and the dict the returned Dispatcher refers to.
branch(heap, self, new) ==
    LET h1 == DispatcherInit(heap, new) IN
    [heap |-> [h1 EXCEPT ![new] = DictUpdate(h1[new], h1[self])],
     ref  |-> new]

(***************************************************************************)
(* Dispatcher operations as actions.                                       *)
(***************************************************************************)
RECURSIVE SumOfSizes(_, _)
SumOfSizes(heap, ds) ==
    IF ds = {} THEN 0
    ELSE LET d == CHOOSE x \in ds : TRUE IN
         Cardinality(heap[d]) + SumOfSizes(heap, ds \ {d})

\* the entries held by the dicts that bound handles refer to
TotalEntries(heap, refs) ==
    SumOfSizes(heap, {refs[t] : t \in {u \in TableIds : refs[u] # 0}})

NoOp == [op |-> "init", t |-> 0, to |-> 0, key |-> <<>>, obj |-> "none",
         fn |-> NoFn, raised |-> "none"]

\* t1 = Dispatcher(); no other handle is bound yet
DInit ==
    /\ registry = DispatcherInit([d \in DictIds |-> {}], 1)
    /\ disp = [t \in TableIds |-> IF t = 1 THEN 1 ELSE 0]
    /\ dlast = NoOp

\* t.dispatch_for(target, qualifier)(fn)
RegisterHandler(t, target, qualifier, fn) ==
    /\ t \in Live
    /\ LET r == dispatch_for(RegistryOf(t), target, qualifier, fn) IN
       /\ registry' = [registry EXCEPT ![disp[t]] = r.registry]
       /\ Cardinality(r.registry) <= MaxEntries
       /\ TotalEntries(registry', disp) <= MaxTotal
       /\ dlast' = [NoOp EXCEPT !.op = "register", !.t = t,
                                !.key = <<target, qualifier>>,
                                !.fn = fn, !.raised = r.raised]
    /\ UNCHANGED disp

\* t.dispatch(obj, qualifier)
Resolve(t, obj, qualifier) ==
    /\ t \in Live
    /\ LET r == dispatch(RegistryOf(t), obj, qualifier) IN
       dlast' = [NoOp EXCEPT !.op = "resolve", !.t = t,
                             !.key = <<TypeOf(obj), qualifier>>,
                             !.obj = obj, !.fn = r.fn, !.raised = r.raised]
    /\ UNCHANGED <<registry, disp>>

\* t2 = t1.branch()
Branch(t1, t2) ==
    /\ t1 \in Live
    /\ t2 # t1
    /\ LET r == branch(registry, disp[t1], FreshDict(t2)) IN
       /\ registry' = r.heap
       /\ disp' = [disp EXCEPT ![t2] = r.ref]
    /\ TotalEntries(registry', disp') <= MaxTotal
    /\ dlast' = [NoOp EXCEPT !.op = "branch", !.t = t1, !.to = t2]

(***************************************************************************)
(* ModuleClsProxy.  Two proxied classes, SubOps a subclass of Ops; the     *)
(* members a class body or a later class-attribute assignment defines;     *)
(* instances of the classes; and the namespace dicts handed to             *)
(* create_module_class_proxy as (globals_, locals_).                       *)
(***************************************************************************)
PClasses == {"Ops", "SubOps"}

\* cls.__mro__ without ModuleClsProxy and object
PMro(cls) ==
    CASE cls = "Ops"    -> <<"Ops">>
      [] cls = "SubOps" -> <<"SubOps", "Ops">>

Instances == {"o1", "o2", "s1"}

\* self.__class__
ClassOf(inst) ==
    CASE inst = "o1" -> "Ops"
      [] inst = "o2" -> "Ops"
      [] inst = "s1" -> "SubOps"

MemberNames == {"run", "ver", "foo", "_hid"}

\* the names a class-attribute assignment adds after the class body
AddedNames == {"foo"}

Kinds == {"callable", "plain"}

\* methname.startswith('_')
StartsWithUnderscore(name) == name \in {"_hid", "_proxy", "_name_error"}

\* the state the class bodies leave: Ops defines run(), ver and _hid
InitialMembers ==
    [cls \in PClasses |->
        [n \in MemberNames |->
            IF cls = "Ops" /\ n = "run" THEN "callable"
            ELSE IF cls = "Ops" /\ n \in {"ver", "_hid"} THEN "plain"
            ELSE "absent"]]

\* getattr(cls, name): the first class of the __mro__ that defines the name
RECURSIVE LookupKind(_, _, _)
LookupKind(mem, mro, name) ==
    IF mro = <<>> THEN "absent"
    ELSE IF mem[Head(mro)][name] # "absent" THEN mem[Head(mro)][name]
    ELSE LookupKind(mem, Tail(mro), name)

KindOf(mem, cls, name) == LookupKind(mem, PMro(cls), name)

\* dir(cls)
Dir(mem, cls) == {n \in MemberNames : KindOf(mem, cls, n) # "absent"}

\* the dicts, and the (globals_, locals_) pairs a caller passes: a module
\* body, where locals() is globals(), and a function body, where it is not
PDicts == {"dA", "dB", "dC"}

Scopes == {<<"dA", "dA">>, <<"dB", "dC">>}

NsKeys == {"run", "ver", "foo", "_proxy", "_name_error"}

(***************************************************************************)
(* What a name of a namespace dict is bound to.                            *)
(***************************************************************************)
Blank == [kind |-> "unbound", cls |-> "-", name |-> "-", inst |-> "-", g |-> "-"]

\* the function _create_method_proxy builds for cls.name; its globals are g
FacadeV(cls, name, g) == [Blank EXCEPT !.kind = "facade", !.cls = cls,
                                       !.name = name, !.g = g]

\* getattr(self, attr_name)
ValueV(inst, name) == [Blank EXCEPT !.kind = "value", !.inst = inst, !.name = name]

\* the instance itself, as bound to '_proxy'
ProxyV(inst) == [Blank EXCEPT !.kind = "instance", !.inst = inst]

NoneV == [Blank EXCEPT !.kind = "None"]

\* the closure _name_error of _create_method_proxy, which refers to cls
NameErrorV(cls) == [Blank EXCEPT !.kind = "name_error", !.cls = cls]

Bind(nsf, d, name, v) == [nsf EXCEPT ![d][name] = v]

AttrNames(setf, cls) == setf[cls].attr_names

Modules(setf, cls) == setf[cls].modules

\* the state the registry operations work on
Reg(nsf, setf) == [ns |-> nsf, setups |-> setf]

(***************************************************************************)
(* _create_method_proxy, as far as the namespaces go: it stores the        *)
(* closure _name_error in globals_ and returns the generated function.     *)
(***************************************************************************)
create_method_proxy(nsf, cls, name, g) ==
    [ns |-> Bind(nsf, g, "_name_error", NameErrorV(cls)),
     fn |-> FacadeV(cls, name, g)]

\* _add_proxied_attribute(methname, globals_, locals_, attr_names)
add_proxied_attribute(st, mem, cls, methname, g, l) ==
    IF ~StartsWithUnderscore(methname)
    THEN IF KindOf(mem, cls, methname) = "callable"
         THEN LET r == create_method_proxy(st.ns, cls, methname, g) IN
              Reg(Bind(r.ns, l, methname, r.fn), st.setups)
         ELSE Reg(st.ns,
                  [st.setups EXCEPT ![cls].attr_names = @ \cup {methname}])
    ELSE st

\* _setup_proxy: for methname in dir(cls)
RECURSIVE setup_proxy_loop(_, _, _, _, _, _)
setup_proxy_loop(st, mem, cls, names, g, l) ==
    IF names = {} THEN st
    ELSE LET n == CHOOSE x \in names : TRUE IN
         setup_proxy_loop(add_proxied_attribute(st, mem, cls, n, g, l),
                          mem, cls, names \ {n}, g, l)

setup_proxy(st, mem, cls, g, l) ==
    setup_proxy_loop(st, mem, cls, Dir(mem, cls), g, l)

\* create_module_class_proxy(globals_, locals_)
create_module_class_proxy(st, mem, cls, g, l) ==
    LET appended == [st.setups EXCEPT ![cls].modules = Append(@, <<g, l>>)] IN
    setup_proxy(Reg(st.ns, appended), mem, cls, g, l)

\* _update_module_proxies(name): for globals_, locals_ in modules
RECURSIVE update_module_proxies_loop(_, _, _, _, _)
update_module_proxies_loop(st, mem, cls, name, mods) ==
    IF mods = <<>> THEN st
    ELSE update_module_proxies_loop(
             add_proxied_attribute(st, mem, cls, name, Head(mods)[1], Head(mods)[2]),
             mem, cls, name, Tail(mods))

update_module_proxies(st, mem, cls, name) ==
    update_module_proxies_loop(st, mem, cls, name, Modules(st.setups, cls))

\* an _install_proxy that leaves a module alone whose '_proxy' is an instance
install_in_unless_active(nsf, g, self, attr_names) ==
    IF nsf[g]["_proxy"].kind = "instance" THEN nsf
    ELSE [nsf EXCEPT ![g] =
             [k \in NsKeys |->
                 IF k \in attr_names THEN ValueV(self, k)
                 ELSE IF k = "_proxy" THEN ProxyV(self)
                 ELSE nsf[g][k]]]

\* an _install_proxy that sets '_proxy' and binds no exposed name
install_in_proxy_only(nsf, g, self, attr_names) ==
    Bind(nsf, g, "_proxy", ProxyV(self))

\* _install_proxy, one module: '_proxy' and every name of attr_names
install_in(nsf, g, self, attr_names) ==
    [nsf EXCEPT ![g] =
        [k \in NsKeys |->
            IF k \in attr_names THEN ValueV(self, k)
            ELSE IF k = "_proxy" THEN ProxyV(self)
            ELSE nsf[g][k]]]

RECURSIVE install_proxy_loop(_, _, _, _)
install_proxy_loop(nsf, mods, self, attr_names) ==
    IF mods = <<>> THEN nsf
    ELSE install_proxy_loop(install_in(nsf, Head(mods)[1], self, attr_names),
                            Tail(mods), self, attr_names)

\* an _install_proxy that looks up _setups for every class of the __mro__
install_proxy_along_mro(st, self) ==
    LET mro == PMro(ClassOf(self))
        done[i \in 0..Len(mro)] ==
            IF i = 0 THEN st.ns
            ELSE install_proxy_loop(done[i - 1], Modules(st.setups, mro[i]),
                                    self, AttrNames(st.setups, mro[i]))
    IN  Reg(done[Len(mro)], st.setups)

\* _install_proxy(self)
install_proxy(st, self) ==
    Reg(install_proxy_loop(st.ns, Modules(st.setups, ClassOf(self)), self,
                           AttrNames(st.setups, ClassOf(self))),
        st.setups)

\* for attr_name in attr_names: del globals_[attr_name], in the order the
\* set iterates; a name that is not bound raises KeyError
RECURSIVE remove_names(_, _, _)
remove_names(nsf, g, order) ==
    IF order = <<>> THEN [ns |-> nsf, raised |-> "none"]
    ELSE IF nsf[g][Head(order)].kind = "unbound"
    THEN [ns |-> nsf, raised |-> "KeyError"]
    ELSE remove_names(Bind(nsf, g, Head(order), Blank), g, Tail(order))

\* a _remove_proxy that stops after the first module
remove_proxy_first_only(nsf, mods, order) ==
    IF mods = <<>> THEN [ns |-> nsf, raised |-> "none"]
    ELSE remove_names(Bind(nsf, Head(mods)[1], "_proxy", NoneV),
                      Head(mods)[1], order)

\* _remove_proxy, the loop over the modules
RECURSIVE remove_proxy_loop(_, _, _)
remove_proxy_loop(nsf, mods, order) ==
    IF mods = <<>> THEN [ns |-> nsf, raised |-> "none"]
    ELSE LET g == Head(mods)[1]
             r == remove_names(Bind(nsf, g, "_proxy", NoneV), g, order)
         IN  IF r.raised # "none" THEN r
             ELSE remove_proxy_loop(r.ns, Tail(mods), order)

\* the orders in which a set of names may iterate
Orders(names) ==
    {o \in [1..Cardinality(names) -> names] :
        \A i, j \in 1..Cardinality(names) : i # j => o[i] # o[j]}

\* _remove_proxy(self), attr_names iterating in the given order
remove_proxy(st, self, order) ==
    remove_proxy_loop(st.ns, Modules(st.setups, ClassOf(self)), order)

(***************************************************************************)
(* Calling the generated function f:                                       *)
(*     try: p = _proxy                                                     *)
(*     except NameError: _name_error(name)                                 *)
(*     return _proxy.name(...)                                             *)
(* with _proxy and _name_error looked up in the function's globals.  The   *)
(* arguments of the call fit the signature of the method; the rewriting of *)
(* legacy keyword names ahead of the try is not part of this operator.     *)
(***************************************************************************)
NoCall == [op |-> "none", d |-> "-", f |-> Blank, raised |-> "none",
           inst |-> "-", errcls |-> "-", errname |-> "-"]

facade_call(nsf, mem, f) ==
    LET proxy == nsf[f.g]["_proxy"] IN
    IF proxy.kind = "unbound"
    THEN \* _name_error(name) raises NameError for the name and its cls
         [NoCall EXCEPT !.raised = "NameError", !.errname = f.name,
                        !.errcls = nsf[f.g]["_name_error"].cls]
    ELSE IF proxy.kind = "None"
    THEN [NoCall EXCEPT !.raised = "AttributeError"]
    ELSE IF KindOf(mem, ClassOf(proxy.inst), f.name) = "absent"
    THEN [NoCall EXCEPT !.raised = "AttributeError"]
    ELSE IF KindOf(mem, ClassOf(proxy.inst), f.name) # "callable"
    THEN [NoCall EXCEPT !.raised = "TypeError"]
    ELSE [NoCall EXCEPT !.inst = proxy.inst]

(***************************************************************************)
(* The registry operations as actions.                                     *)
(***************************************************************************)
\* after_attach: a _remove_proxy that directly follows the _install_proxy
\* of the same instance; replaced: the instances an _install_proxy found
\* bound to '_proxy' in the modules of its class
NoPOp == [op |-> "init", cls |-> "-", inst |-> "-", scope |-> <<>>,
          name |-> "-", raised |-> "none", after_attach |-> FALSE,
          replaced |-> {}]

\* the instances bound to '_proxy' in the modules registered for a class
ActiveIn(nsf, setf, cls) ==
    {nsf[setf[cls].modules[i][1]]["_proxy"].inst :
        i \in {j \in 1..Len(setf[cls].modules) :
                  nsf[setf[cls].modules[j][1]]["_proxy"].kind = "instance"}}

TotalModules(setf) == Len(setf["Ops"].modules) + Len(setf["SubOps"].modules)

PublicDir(mem, cls) == {n \in Dir(mem, cls) : ~StartsWithUnderscore(n)}

PInit ==
    /\ members = InitialMembers
    /\ setups = [cls \in PClasses |-> [attr_names |-> {}, modules |-> <<>>]]
    /\ ns = [d \in PDicts |-> [k \in NsKeys |-> Blank]]
    /\ notified = [cls \in PClasses |-> {}]
    /\ attached_ever = {}
    /\ plast = NoPOp
    /\ pcall = NoCall

\* cls.create_module_class_proxy(globals_, locals_); a namespace is the
\* facade of one class
RegisterClass(cls, scope) ==
    /\ TotalModules(setups) < MaxModules
    /\ \A other \in PClasses \ {cls} :
          \A i \in 1..Len(setups[other].modules) : setups[other].modules[i] # scope
    /\ LET r == create_module_class_proxy(Reg(ns, setups), members, cls,
                                          scope[1], scope[2]) IN
       /\ ns' = r.ns
       /\ setups' = r.setups
    /\ notified' = [notified EXCEPT ![cls] =
                       IF setups[cls].modules = <<>>
                       THEN PublicDir(members, cls)
                       ELSE @ \cap PublicDir(members, cls)]
    /\ plast' = [NoPOp EXCEPT !.op = "register", !.cls = cls, !.scope = scope]
    /\ pcall' = NoCall
    /\ UNCHANGED <<members, attached_ever>>

\* cls.key = value, through _ModuleClsMeta.__setattr__: a member is added,
\* or assigned again with a value of the same kind
NotifyMemberAdded(cls, key, kind) ==
    /\ KindOf(members, cls, key) \in {"absent", kind}
    /\ members' = [members EXCEPT ![cls][key] = kind]
    /\ LET r == update_module_proxies(Reg(ns, setups), members', cls, key) IN
       /\ ns' = r.ns
       /\ setups' = r.setups
    /\ notified' = [notified EXCEPT ![cls] =
                       IF StartsWithUnderscore(key) THEN @ ELSE @ \cup {key}]
    /\ plast' = [NoPOp EXCEPT !.op = "setattr", !.cls = cls, !.name = key]
    /\ pcall' = NoCall
    /\ UNCHANGED attached_ever

\* self._install_proxy()
AttachInstance(self) ==
    /\ LET r == install_proxy(Reg(ns, setups), self) IN
       /\ ns' = r.ns
       /\ setups' = r.setups
    /\ attached_ever' = attached_ever \cup {ClassOf(self)}
    /\ plast' = [NoPOp EXCEPT !.op = "attach", !.cls = ClassOf(self),
                              !.inst = self,
                              !.replaced = ActiveIn(ns, setups, ClassOf(self))]
    /\ pcall' = NoCall
    /\ UNCHANGED <<members, notified>>

\* self._remove_proxy()
DetachInstance(self) ==
    /\ \E order \in Orders(AttrNames(setups, ClassOf(self))) :
          LET r == remove_proxy(Reg(ns, setups), self, order) IN
          /\ ns' = r.ns
          /\ plast' = [NoPOp EXCEPT !.op = "detach", !.cls = ClassOf(self),
                                    !.inst = self, !.raised = r.raised,
                                    !.after_attach =
                                        (plast.op = "attach" /\ plast.inst = self)]
    /\ pcall' = NoCall
    /\ UNCHANGED <<members, setups, notified, attached_ever>>

\* d[name](...) for a name of a namespace that is bound to a facade
CallFacade(d, name) ==
    /\ ns[d][name].kind = "facade"
    /\ pcall' = [facade_call(ns, members, ns[d][name]) EXCEPT
                    !.op = "call", !.d = d, !.f = ns[d][name]]
    /\ UNCHANGED <<members, setups, ns, notified, attached_ever, plast>>

(***************************************************************************)
(* The specifications: the Dispatcher alone and the proxy registry alone.  *)
(***************************************************************************)
(***************************************************************************)
(* translate(spec, translations, args, kw), the function a facade of a     *)
(* method with _legacy_translations runs on the arguments of each call.    *)
(* A dict of keyword arguments is a function from the names to a value or  *)
(* to "absent".                                                            *)
(***************************************************************************)
KwNames == {"old", "new", "p"}

ArgValues == {"v1", "v2"}

NoKw == [n \in KwNames |-> "absent"]

\* name in kw
InKw(kw, name) == kw[name] # "absent"

\* the (oldname, newname) pairs a _legacy_translations list is made of
Rules == {<<"old", "new">>, <<"old", "p">>, <<"new", "p">>}

\* the lists of distinct pairs; translate is installed for a non-empty one
Translations ==
    {tr \in UNION {[1..n -> Rules] : n \in 1..MaxRules} :
        \A i, j \in 1..Len(tr) : i # j => tr[i] # tr[j]}

\* spec[0], the names of the parameters after self
ParamLists == {<<>>, <<"new">>, <<"p">>, <<"new", "p">>, <<"p", "new">>}

\* for oldname, newname in translations: ... return_kw[newname] = kw.pop(oldname)
RECURSIVE rename_loop(_, _, _)
rename_loop(translations, kw, return_kw) ==
    IF translations = <<>>
    THEN [kw |-> kw, return_kw |-> return_kw]
    ELSE LET oldname == Head(translations)[1]
             newname == Head(translations)[2]
         IN  IF InKw(kw, oldname)
             THEN rename_loop(Tail(translations),
                              [kw EXCEPT ![oldname] = "absent"],
                              [return_kw EXCEPT ![newname] = kw[oldname]])
             ELSE rename_loop(Tail(translations), kw, return_kw)

\* return_kw.update(kw)
kw_update(return_kw, kw) ==
    [n \in KwNames |-> IF InKw(kw, n) THEN kw[n] ELSE return_kw[n]]

\* a pos_only that keeps the defaulted parameters
pos_only_all(names, ndefaults) == names

\* pos_only: spec[0][:-len(spec[3])] when there are defaults, else spec[0]
pos_only(names, ndefaults) ==
    IF ndefaults > 0
    THEN SubSeq(names, 1, Len(names) - ndefaults)
    ELSE names

\* a loop that takes the argument of each parameter from the end: args.pop()
RECURSIVE fill_loop_pop_last(_, _, _, _)
fill_loop_pop_last(params, args, return_args, return_kw) ==
    IF params = <<>>
    THEN [raised |-> "none", arg |-> "-", return_args |-> return_args \o args]
    ELSE IF InKw(return_kw, Head(params))
    THEN fill_loop_pop_last(Tail(params), args, return_args, return_kw)
    ELSE IF args = <<>>
    THEN [raised |-> "TypeError", arg |-> Head(params), return_args |-> <<>>]
    ELSE fill_loop_pop_last(Tail(params), SubSeq(args, 1, Len(args) - 1),
                            Append(return_args, args[Len(args)]), return_kw)

\* for arg in pos_only: ... return_args.append(args.pop(0)), and after the
\* loop return_args.extend(args)
RECURSIVE fill_loop(_, _, _, _)
fill_loop(params, args, return_args, return_kw) ==
    IF params = <<>>
    THEN [raised |-> "none", arg |-> "-", return_args |-> return_args \o args]
    ELSE IF InKw(return_kw, Head(params))
    THEN fill_loop(Tail(params), args, return_args, return_kw)
    ELSE IF args = <<>>
    THEN [raised |-> "TypeError", arg |-> Head(params), return_args |-> <<>>]
    ELSE fill_loop(Tail(params), Tail(args),
                   Append(return_args, Head(args)), return_kw)

\* nothing handed to translate, and no result
NoInput == [names |-> <<>>, ndefaults |-> 0, translations |-> <<>>,
            args |-> <<>>, kw |-> NoKw]

NoResult == [state |-> "idle", raised |-> "none", arg |-> "-",
             args |-> <<>>, kw |-> NoKw]

translate(names, ndefaults, translations, args, kw) ==
    LET rn        == rename_loop(translations, kw, NoKw)
        return_kw == kw_update(rn.return_kw, rn.kw)
        fl        == fill_loop(pos_only(names, ndefaults), args, <<>>, return_kw)
    IN  IF fl.raised = "none"
        THEN [NoResult EXCEPT !.state = "returned", !.args = fl.return_args,
                              !.kw = return_kw]
        ELSE [NoResult EXCEPT !.state = "raised", !.raised = fl.raised,
                              !.arg = fl.arg]

\* no registration script
NoCalls == [todo |-> [t \in TableIds |-> <<>>], done |-> [t \in TableIds |-> <<>>]]

Init == DInit /\ PInit /\ calls = NoCalls /\ tin = NoInput /\ tout = NoResult

DispatchNext ==
    \/ \E t \in TableIds, target \in Types, q \in Qualifiers, fn \in Handlers :
          RegisterHandler(t, target, q, fn) /\ UNCHANGED <<pvars, calls, tvars>>
    \/ \E t \in TableIds, obj \in Objects, q \in Qualifiers :
          Resolve(t, obj, q) /\ UNCHANGED <<pvars, calls, tvars>>
    \/ \E t1 \in TableIds, t2 \in TableIds : Branch(t1, t2) /\ UNCHANGED <<pvars, calls, tvars>>

ProxyNext ==
    \/ \E cls \in PClasses, scope \in Scopes :
          RegisterClass(cls, scope) /\ UNCHANGED <<dvars, calls, tvars>>
    \/ \E cls \in PClasses, key \in AddedNames, kind \in Kinds :
          NotifyMemberAdded(cls, key, kind) /\ UNCHANGED <<dvars, calls, tvars>>
    \/ \E self \in Instances : AttachInstance(self) /\ UNCHANGED <<dvars, calls, tvars>>
    \/ \E self \in Instances : DetachInstance(self) /\ UNCHANGED <<dvars, calls, tvars>>
    \/ \E d \in PDicts, name \in NsKeys : CallFacade(d, name) /\ UNCHANGED <<dvars, calls, tvars>>

(***************************************************************************)
(* Two Dispatchers that are handed the same dispatch_for calls, each key   *)
(* once, in two orders.                                                    *)
(***************************************************************************)
\* the calls of a script: 'default' and one other qualifier
RegCalls == [key : Types \X {"default", "x"}, fn : Handlers]

\* the scripts: sequences of calls whose keys are distinct
Scripts ==
    {s \in UNION {[1..n -> RegCalls] : n \in 0..MaxCalls} :
        \A i, j \in 1..Len(s) : i # j => s[i].key # s[j].key}

Reorderings(s) ==
    {[i \in 1..Len(s) |-> s[p[i]]] :
        p \in {q \in [1..Len(s) -> 1..Len(s)] :
                  \A i, j \in 1..Len(s) : i # j => q[i] # q[j]}}

\* Dispatcher() twice, and a script with one of its reorderings
OrderInit ==
    /\ registry = DispatcherInit(DispatcherInit([d \in DictIds |-> {}], 1), 2)
    /\ disp = [t \in TableIds |-> t]
    /\ dlast = NoOp
    /\ PInit
    /\ tin = NoInput
    /\ tout = NoResult
    /\ \E s \in Scripts : \E r \in Reorderings(s) :
          calls = [todo |-> [t \in TableIds |-> IF t = 1 THEN s ELSE r],
                   done |-> [t \in TableIds |-> <<>>]]

\* t.dispatch_for(target, qualifier)(fn) for the next call of t's script
RegisterPending(t) ==
    /\ calls.todo[t] # <<>>
    /\ LET c == Head(calls.todo[t])
           r == dispatch_for(RegistryOf(t), c.key[1], c.key[2], c.fn) IN
       /\ registry' = [registry EXCEPT ![disp[t]] = r.registry]
       /\ dlast' = [NoOp EXCEPT !.op = "register", !.t = t, !.key = c.key,
                                !.fn = c.fn, !.raised = r.raised]
       /\ calls' = [todo |-> [calls.todo EXCEPT ![t] = Tail(@)],
                    done |-> [calls.done EXCEPT ![t] = Append(@, c)]]
    /\ UNCHANGED disp

OrderNext ==
    \/ \E t \in TableIds : RegisterPending(t) /\ UNCHANGED <<pvars, tvars>>
    \/ \E t \in TableIds, obj \in Objects, q \in Qualifiers :
          Resolve(t, obj, q) /\ UNCHANGED <<pvars, calls, tvars>>

(***************************************************************************)
(* A call of a facade whose method has _legacy_translations: the argspec,  *)
(* the translations and the arguments of the call are drawn at the start.  *)
(***************************************************************************)
TranslateInit ==
    /\ DInit
    /\ PInit
    /\ calls = NoCalls
    /\ tout = NoResult
    /\ \E names \in ParamLists, tr \in Translations :
       \E nd \in 0..Len(names), n \in 0..MaxArgs :
       \E args \in [1..n -> ArgValues], kw \in [KwNames -> ArgValues \cup {"absent"}] :
          tin = [names |-> names, ndefaults |-> nd, translations |-> tr,
                 args |-> args, kw |-> kw]

\* args, kw = _translate(spec, translations, args, kw)
Translate ==
    /\ tout.state = "idle"
    /\ tout' = translate(tin.names, tin.ndefaults, tin.translations,
                         tin.args, tin.kw)
    /\ UNCHANGED tin

TranslateNext == Translate /\ UNCHANGED <<dvars, pvars, calls>>

SpecDispatch == Init /\ [][DispatchNext]_vars

SpecProxy == Init /\ [][ProxyNext]_vars

SpecOrder == OrderInit /\ [][OrderNext]_vars

SpecTranslate == TranslateInit /\ [][TranslateNext]_vars

(***************************************************************************)
(* Properties of the Dispatcher.                                           *)
(***************************************************************************)
Other(t) == CHOOSE u \in TableIds : u # t

\* C1: registerHandler for a key (type, qualifier) that the table already
\* holds fails with an error, for every type and qualifier.
C1_DuplicateRegistrationFails ==
    [][(dlast'.op = "register" /\ HasKey(RegistryOf(dlast'.t), dlast'.key))
          => dlast'.raised # "none"]_dvars

\* the reference walk of C2: the nearest ancestor that has an entry under
\* the qualifier (when it is not 'default') or under 'default'
C2_Matches(reg, ancestor, q) ==
    \/ q # "default" /\ HasKey(reg, <<ancestor, q>>)
    \/ HasKey(reg, <<ancestor, "default">>)

C2_Reference(reg, obj, q) ==
    LET mro  == Mro(TypeOf(obj))
        hits == {i \in 1..Len(mro) : C2_Matches(reg, mro[i], q)}
    IN  IF hits = {}
        THEN [fn |-> NoFn, raised |-> "ValueError"]
        ELSE LET n == CHOOSE i \in hits : \A j \in hits : i <= j
                 a == mro[n]
             IN  [fn |-> IF q # "default" /\ HasKey(reg, <<a, q>>)
                         THEN GetItem(reg, <<a, q>>)
                         ELSE GetItem(reg, <<a, "default">>),
                  raised |-> "none"]

\* C2: resolve(instance, q) returns what the reference walk returns: the
\* entry of the nearest ancestor that has one under q or 'default', and at
\* that ancestor the entry under q in preference to the one under 'default'.
C2_ResolveIsReferenceWalk ==
    dlast.op = "resolve" =>
        LET ref == C2_Reference(RegistryOf(dlast.t), dlast.obj, dlast.key[2])
        IN  dlast.fn = ref.fn /\ dlast.raised = ref.raised

\* a resolve that found, at one ancestor, both an entry under the qualifier
\* and a different one under 'default', and returned the former
C2_Witness ==
    /\ dlast.op = "resolve"
    /\ dlast.key[2] # "default"
    /\ \E a \in Types :
          /\ a = Head(Mro(TypeOf(dlast.obj)))
          /\ HasKey(RegistryOf(dlast.t), <<a, dlast.key[2]>>)
          /\ HasKey(RegistryOf(dlast.t), <<a, "default">>)
          /\ GetItem(RegistryOf(dlast.t), <<a, "default">>) # dlast.fn
          /\ GetItem(RegistryOf(dlast.t), <<a, dlast.key[2]>>) = dlast.fn

InChain(obj) == {Mro(TypeOf(obj))[i] : i \in 1..Len(Mro(TypeOf(obj)))}

\* C3: resolve(instance, q) raises exactly when no ancestor of the instance's
\* type has an entry under q or under 'default'; a handler it returns is
\* registered under an ancestor and under q or 'default'.
C3_UnresolvedExactlyWhenNoEntry ==
    dlast.op = "resolve" =>
        LET reg == RegistryOf(dlast.t)
            q   == dlast.key[2]
            any == \E a \in InChain(dlast.obj) :
                       HasKey(reg, <<a, q>>) \/ HasKey(reg, <<a, "default">>)
        IN  /\ dlast.raised \in {"none", "ValueError"}
            /\ (dlast.raised = "ValueError") <=> ~any
            /\ dlast.raised = "ValueError" => dlast.fn = NoFn
            /\ dlast.raised = "none" =>
                  \E a \in InChain(dlast.obj), qq \in {q, "default"} :
                      [key |-> <<a, qq>>, fn |-> dlast.fn] \in reg

\* a resolve that raised although the table holds entries, one for a type
\* outside the chain and one under another qualifier
C3_Witness ==
    /\ dlast.op = "resolve"
    /\ dlast.raised = "ValueError"
    /\ \E e \in RegistryOf(dlast.t) : e.key[1] \notin InChain(dlast.obj)
    /\ \E e \in RegistryOf(dlast.t) :
          e.key[1] \in InChain(dlast.obj) /\ e.key[2] \notin {dlast.key[2], "default"}

\* C4: once t2 = t1.branch() exists, a registerHandler on either table
\* leaves every resolve result of the other table unchanged.  (Two bound
\* handles are always a table and a branch of it.)
C4_BranchIsolation ==
    [][dlast'.op = "register" =>
          \A u \in Live \ {dlast'.t} : \A obj \in Objects, q \in Qualifiers :
              dispatch(registry'[disp'[u]], obj, q) = dispatch(registry[disp[u]], obj, q)]_dvars

\* a handler registered in one table after the branch resolves there, and
\* the same resolve still fails in the other table
C4_Witness ==
    /\ dlast.op = "register"
    /\ Live = TableIds
    /\ \E obj \in Objects :
          /\ TypeOf(obj) = dlast.key[1]
          /\ dispatch(RegistryOf(dlast.t), obj, dlast.key[2]).fn = dlast.fn
          /\ dispatch(RegistryOf(Other(dlast.t)), obj, dlast.key[2]).raised = "ValueError"

\* C5: right after t2 = t1.branch(), t2 holds exactly the entries t1 held,
\* every resolve gives the same result on both, and t1's entries are as
\* they were before the call.
C5_BranchIsCopy ==
    [][dlast'.op = "branch" =>
          LET t1 == dlast'.t
              t2 == dlast'.to
          IN  /\ registry'[disp'[t1]] = registry[disp[t1]]
              /\ registry'[disp'[t2]] = registry[disp[t1]]
              /\ \A obj \in Objects, q \in Qualifiers :
                    dispatch(registry'[disp'[t2]], obj, q)
                        = dispatch(registry'[disp'[t1]], obj, q)]_dvars

\* a branch of a table in which some resolve succeeds and some resolve fails
C5_Witness ==
    /\ dlast.op = "branch"
    /\ RegistryOf(dlast.to) # {}
    /\ \E obj \in Objects, q \in Qualifiers :
          dispatch(RegistryOf(dlast.to), obj, q).raised = "none"
    /\ \E obj \in Objects, q \in Qualifiers :
          dispatch(RegistryOf(dlast.to), obj, q).raised = "ValueError"

(***************************************************************************)
(* Properties of the proxy registry.                                       *)
(***************************************************************************)
\* the (globals_, locals_) pairs registered for a class
ScopesOf(cls) == {setups[cls].modules[i] : i \in 1..Len(setups[cls].modules)}

Unbound(d, name) == ns[d][name].kind = "unbound"

\* C6, as claimed: after detachInstance(c) has completed, every scope of c's
\* class has its slot cleared and none of the exposed names, facades
\* included, is still bound in it.
C6_DetachRemovesEveryName ==
    (plast.op = "detach" /\ plast.raised = "none") =>
        \A sc \in ScopesOf(plast.cls) :
            /\ ns[sc[1]]["_proxy"].kind \in {"None", "unbound"}
            /\ \A m \in PublicDir(members, plast.cls) :
                  Unbound(sc[1], m) /\ Unbound(sc[2], m)

\* C6, amended: after detachInstance(c) has completed, every scope of c's
\* class has None in its slot and no plain-attribute name of the class
\* bound in its globals, and the facades of the callable members are still
\* bound in its locals.
C6_DetachClearsSlotAndAttributes ==
    (plast.op = "detach" /\ plast.raised = "none") =>
        \A sc \in ScopesOf(plast.cls) :
            /\ ns[sc[1]]["_proxy"] = NoneV
            /\ \A m \in AttrNames(setups, plast.cls) : Unbound(sc[1], m)
            /\ \A m \in notified[plast.cls] :
                  KindOf(members, plast.cls, m) = "callable"
                      => ns[sc[2]][m] = FacadeV(plast.cls, m, sc[1])

\* a detach of the attached instance, completed, with two scopes registered,
\* a plain attribute exposed and a facade left behind
C6_Witness ==
    /\ plast.op = "detach"
    /\ plast.raised = "none"
    /\ plast.after_attach
    /\ Cardinality(ScopesOf(plast.cls)) = 2
    /\ "ver" \in AttrNames(setups, plast.cls)
    /\ \A sc \in ScopesOf(plast.cls) : ns[sc[2]]["run"].kind = "facade"

\* the call recorded in pcall is of a facade of cls installed in one of the
\* scopes registered for cls
CallsFacadeOf(cls) ==
    /\ pcall.op = "call"
    /\ pcall.f.cls = cls
    /\ <<pcall.f.g, pcall.d>> \in ScopesOf(cls)

\* the call failed with the "proxy not established" NameError of _name_error,
\* naming the class and the member
ProxyNotEstablished(cls) ==
    /\ pcall.raised = "NameError"
    /\ pcall.errcls = cls
    /\ pcall.errname = pcall.f.name
    /\ pcall.inst = "-"

\* C7: after attachInstance(c) followed by detachInstance(c), a call of a
\* facade of c's class fails with the "proxy not established" error naming
\* the class and the member.
C7_CallAfterDetachNotEstablished ==
    (plast.op = "detach" /\ plast.after_attach /\ plast.raised = "none"
        /\ CallsFacadeOf(plast.cls))
      => ProxyNotEstablished(plast.cls)

\* C8: while no attachInstance has run for class C, a call of a facade of C
\* fails with the "proxy not established" error naming C and the member, and
\* is forwarded to no instance.
C8_CallBeforeAttachNotEstablished ==
    \A cls \in PClasses \ attached_ever :
        CallsFacadeOf(cls) => ProxyNotEstablished(cls)

C10_AddedMemberReachable ==
    (plast.op = "setattr" /\ ~StartsWithUnderscore(plast.name)
        /\ Cardinality(ScopesOf(plast.cls)) = 2) =>
        \A sc \in ScopesOf(plast.cls) :
            IF KindOf(members, plast.cls, plast.name) = "callable"
            THEN ns[sc[2]][plast.name] = FacadeV(plast.cls, plast.name, sc[1])
            ELSE /\ plast.name \in AttrNames(setups, plast.cls)
                 /\ ns[sc[1]]["_proxy"].kind = "instance" =>
                       ns[sc[1]][plast.name]
                           = ValueV(ns[sc[1]]["_proxy"].inst, plast.name)

\* the facades of a class that are bound in the locals of its scopes
FacadesOf(cls) ==
    {ns[sc[2]][m] : sc \in ScopesOf(cls), m \in NsKeys}
        \cap {FacadeV(cls, m, sc[1]) : sc \in ScopesOf(cls), m \in NsKeys}

\* C11: attachInstance(c2) while another instance c1 of the class is active
\* raises nothing and replaces c1: every registered scope then has c2 in its
\* slot, every exposed name bound to c2's value, and every facade of the
\* class forwards to c2.
C11_AttachReplacesActive ==
    (plast.op = "attach" /\ plast.replaced \ {plast.inst} # {}) =>
        /\ plast.raised = "none"
        /\ \A sc \in ScopesOf(plast.cls) :
              /\ ns[sc[1]]["_proxy"] = ProxyV(plast.inst)
              /\ \A m \in AttrNames(setups, plast.cls) :
                    ns[sc[1]][m] = ValueV(plast.inst, m)
        /\ \A f \in FacadesOf(plast.cls) :
              facade_call(ns, members, f) = [NoCall EXCEPT !.inst = plast.inst]

\* o2 attached over o1 in two scopes that expose a plain name and a facade
C11_Witness ==
    /\ plast.op = "attach"
    /\ plast.inst = "o2"
    /\ plast.replaced = {"o1"}
    /\ Cardinality(ScopesOf("Ops")) = 2
    /\ "ver" \in AttrNames(setups, "Ops")
    /\ Cardinality(FacadesOf("Ops")) >= 2

\* the names of attr_names that are bound in the globals of a scope
BoundAttrs(cls, sc) == {m \in AttrNames(setups, cls) : ~Unbound(sc[1], m)}

\* C12: no registered scope is ever partially bound: either an instance is
\* active in it and every exposed name of the class is bound to that
\* instance's value, or no instance is active and no exposed name is bound.
C12_NoPartiallyBoundScope ==
    \A cls \in PClasses : \A sc \in ScopesOf(cls) :
        IF ns[sc[1]]["_proxy"].kind = "instance"
        THEN \A m \in AttrNames(setups, cls) :
                 ns[sc[1]][m] = ValueV(ns[sc[1]]["_proxy"].inst, m)
        ELSE BoundAttrs(cls, sc) = {}

\* a (globals_, locals_) pair occurs twice in the modules of the class
RegisteredTwice(cls) ==
    \E i, j \in 1..Len(setups[cls].modules) :
        i # j /\ setups[cls].modules[i] = setups[cls].modules[j]

\* C15: registering a class again for a scope it is registered for changes
\* nothing that a later operation can tell: the detachInstance that follows
\* an attachInstance completes without error, as it does after a single
\* registration.
C15_ReRegistrationIdempotent ==
    \A cls \in PClasses :
        (RegisteredTwice(cls) /\ plast.op = "detach" /\ plast.cls = cls
            /\ plast.after_attach) => plast.raised = "none"

\* C18: detachInstance(c) completes without error in every state in which
\* c's class is registered.
C18_DetachNeverFails ==
    (plast.op = "detach" /\ ScopesOf(plast.cls) # {}) => plast.raised = "none"

\* the dicts of the scopes registered for a class
DictsOf(cls) == UNION {{sc[1], sc[2]} : sc \in ScopesOf(cls)}

\* C19: attachInstance(c), detachInstance(c) and notifyMemberAdded(C, name)
\* leave the registration, the slot and the bindings of every scope that is
\* registered for another class as they are, a superclass or subclass too.
C19_OtherClassesUntouched ==
    [][plast'.op \in {"attach", "detach", "setattr"} =>
          \A cls \in PClasses \ {plast'.cls} :
              /\ setups'[cls] = setups[cls]
              /\ \A d \in DictsOf(cls) : ns'[d] = ns[d]]_vars

\* s1 was attached after o1: the scope of the superclass Ops still has o1
\* in its slot and ver bound to o1's value
C19_Witness ==
    /\ plast.op = "attach"
    /\ plast.inst = "s1"
    /\ \E sc \in ScopesOf("Ops") :
          /\ ns[sc[1]]["_proxy"] = ProxyV("o1")
          /\ ns[sc[1]]["ver"] = ValueV("o1", "ver")
    /\ \E sc \in ScopesOf("SubOps") : ns[sc[1]]["_proxy"] = ProxyV("s1")

\* C17: when the nearest ancestor N that has any entry under q or 'default'
\* has only the 'default' one, and a farther ancestor has an entry under
\* q # 'default', resolve(instance, q) returns N's 'default' handler.
C17_NearerDefaultBeatsFartherQualifier ==
    dlast.op = "resolve" =>
        LET reg == RegistryOf(dlast.t)
            q   == dlast.key[2]
            mro == Mro(TypeOf(dlast.obj))
        IN  \A n, f \in 1..Len(mro) :
                ( /\ q # "default"
                  /\ n < f
                  /\ HasKey(reg, <<mro[n], "default">>)
                  /\ ~HasKey(reg, <<mro[n], q>>)
                  /\ HasKey(reg, <<mro[f], q>>)
                  /\ \A k \in 1..(n - 1) : ~C2_Matches(reg, mro[k], q) )
                => /\ dlast.raised = "none"
                   /\ dlast.fn = GetItem(reg, <<mro[n], "default">>)

\* resolve(aDerived, 'x') with Derived holding only a 'default' entry and Base
\* holding a different handler under 'x': Derived's handler was returned
C17_Witness ==
    /\ dlast.op = "resolve"
    /\ dlast.obj = "aDerived"
    /\ dlast.key[2] = "x"
    /\ HasKey(RegistryOf(dlast.t), <<"Derived", "default">>)
    /\ ~HasKey(RegistryOf(dlast.t), <<"Derived", "x">>)
    /\ HasKey(RegistryOf(dlast.t), <<"Base", "x">>)
    /\ GetItem(RegistryOf(dlast.t), <<"Base", "x">>)
           # GetItem(RegistryOf(dlast.t), <<"Derived", "default">>)
    /\ dlast.fn = GetItem(RegistryOf(dlast.t), <<"Derived", "default">>)

Range(s) == {s[i] : i \in 1..Len(s)}

\* both scripts have run to their end, and they were made of the same calls
SameCallsMade ==
    /\ \A t \in TableIds : calls.todo[t] = <<>>
    /\ Range(calls.done[1]) = Range(calls.done[2])

\* C16: two tables that received the same registerHandler calls, with
\* distinct keys, in different orders give the same result for
\* resolve(instance, q), for every instance and qualifier.
C16_ResolveIndependentOfOrder ==
    (SameCallsMade /\ dlast.op = "resolve") =>
        LET r == dispatch(RegistryOf(Other(dlast.t)), dlast.obj, dlast.key[2])
        IN  /\ dlast.fn = r.fn
            /\ dlast.raised = r.raised
            /\ \A obj \in Objects, q \in Qualifiers :
                  dispatch(RegistryOf(1), obj, q) = dispatch(RegistryOf(2), obj, q)

\* the two tables got two calls for the same type in opposite orders, and a
\* resolve returned one of the handlers
C16_Witness ==
    /\ SameCallsMade
    /\ Len(calls.done[1]) = 2
    /\ calls.done[1] # calls.done[2]
    /\ calls.done[1][1].key[1] = calls.done[1][2].key[1]
    /\ calls.done[1][1].fn # calls.done[1][2].fn
    /\ dlast.op = "resolve"
    /\ dlast.raised = "none"
    /\ dlast.fn = calls.done[1][1].fn

(***************************************************************************)
(* Properties of translate.                                                *)
(***************************************************************************)
\* C13: for each rule (oldName, newName) whose oldName is among the keyword
\* arguments of the call, the keyword arguments translate returns contain
\* newName with the value that was passed as oldName, and do not contain
\* oldName.
C13_LegacyKeywordsMoved ==
    tout.state = "returned" =>
        \A i \in 1..Len(tin.translations) :
            LET oldname == tin.translations[i][1]
                newname == tin.translations[i][2]
            IN  InKw(tin.kw, oldname) =>
                    /\ tout.kw[newname] = tin.kw[oldname]
                    /\ ~InKw(tout.kw, oldname)

\* the keyword arguments after the renaming and the update, as translate
\* forwards them
RenamedKw ==
    LET rn == rename_loop(tin.translations, tin.kw, NoKw)
    IN  kw_update(rn.return_kw, rn.kw)

\* the non-defaulted parameters, in declaration order
Required == [i \in 1..(Len(tin.names) - tin.ndefaults) |-> tin.names[i]]

\* the non-defaulted parameters that are absent from the renamed keyword
\* arguments and that no positional argument is left for: each absent
\* parameter before them has used one up
Unfilled ==
    {i \in DOMAIN Required :
        /\ ~InKw(RenamedKw, Required[i])
        /\ Cardinality({j \in 1..(i - 1) : ~InKw(RenamedKw, Required[j])})
               >= Len(tin.args)}

\* C14: translate raises the TypeError exactly when some non-defaulted
\* parameter is absent from the keyword arguments after renaming and no
\* positional argument remains to fill it; the error names the first such
\* parameter, and every other call returns without error.
C14_MissingPositionalRaises ==
    tout.state # "idle" =>
        IF Unfilled = {}
        THEN tout.state = "returned" /\ tout.raised = "none"
        ELSE /\ tout.state = "raised"
             /\ tout.raised = "TypeError"
             /\ tout.arg = Required[CHOOSE i \in Unfilled :
                                        \A j \in Unfilled : i <= j]

\* f(new, p) called with one positional argument and no keyword: new took
\* the argument and the error names p
C14_Witness ==
    /\ tout.state = "raised"
    /\ tin.names = <<"new", "p">>
    /\ tin.ndefaults = 0
    /\ Len(tin.args) = 1
    /\ tin.kw = NoKw
    /\ tout.arg = "p"

\* C20: whenever translate returns without error, the positional arguments
\* it returns are the ones it was given, the same values in the same order.
C20_PositionalArgsUnchanged ==
    tout.state = "returned" => tout.args = tin.args

\* two different positional arguments: one was taken for the parameter new,
\* the other was left over, and p came as a keyword
C20_Witness ==
    /\ tout.state = "returned"
    /\ tin.names = <<"new", "p">>
    /\ tin.ndefaults = 0
    /\ tin.args = <<"v1", "v2">>
    /\ ~InKw(RenamedKw, "new")
    /\ InKw(RenamedKw, "p")
    /\ tout.args = <<"v1", "v2">>

====
